---- MODULE Spec2Model ----
(***************************************************************************)
(* Model of internal/text/generate.py: the font texture generator.         *)
(* Strings are sequences of code points.  The font engine and the image    *)
(* codec are external: a font is a table of glyph bounding boxes, and any   *)
(* call into the libraries may raise.                                      *)
(***************************************************************************)
EXTENDS Integers, Sequences, FiniteSets, TLC

VARIABLES mode, font, padding, pc, chars, min_left, min_top, max_right,
          max_bottom, m, cell_width, cell_height, cols, rows, image_width,
          image_height, img, i, drawn, saves, exit_code, failed_at, raised

vars == <<mode, font, padding, pc, chars, min_left, min_top, max_right,
          max_bottom, m, cell_width, cell_height, cols, rows, image_width,
          image_height, img, i, drawn, saves, exit_code, failed_at, raised>>

(* ---- bounds of the model ---- *)
MaxLen == 3
MaxPadding == 2
MaxCount == 256
MaxDelta == 3

(* ---- strings ---- *)
Range(a, b) == [n \in 1..(b - a + 1) |-> a + n - 1]

digits == Range(48, 57)
ascii_lowercase == Range(97, 122)
ascii_uppercase == Range(65, 90)
ascii_letters == ascii_lowercase \o ascii_uppercase
punctuation == Range(33, 47) \o Range(58, 64) \o Range(91, 96) \o Range(123, 126)
whitespace == <<32, 9, 10, 13, 11, 12>>
printable == digits \o ascii_letters \o punctuation \o whitespace

AsciiName == <<97, 115, 99, 105, 105>>
NumericName == <<110, 117, 109, 101, 114, 105, 99>>
AlphanumericName == <<97, 108, 112, 104, 97, 110, 117, 109, 101, 114, 105, 99>>
ExtendedName == <<101, 120, 116, 101, 110, 100, 101, 100>>
PresetNames == {AsciiName, NumericName, AlphanumericName, ExtendedName}

RECURSIVE Dedup(_)
Dedup(s) ==
    IF s = <<>> THEN <<>>
    ELSE LET r == Dedup(SubSeq(s, 1, Len(s) - 1))
             c == s[Len(s)]
         IN IF \E n \in 1..Len(r) : r[n] = c THEN r ELSE Append(r, c)

get_charset_dedup(md) ==
    IF md = AsciiName THEN SubSeq(printable, 1, 95)
    ELSE IF md = NumericName THEN digits
    ELSE IF md = AlphanumericName THEN digits \o ascii_letters
    ELSE IF md = ExtendedName THEN SubSeq(printable, 1, 95) \o Range(161, 255)
    ELSE Dedup(md)

get_charset_short(md) ==
    IF md = AsciiName THEN SubSeq(printable, 1, 95)
    ELSE IF md = NumericName THEN digits
    ELSE IF md = AlphanumericName THEN digits \o ascii_letters
    ELSE IF md = ExtendedName THEN SubSeq(printable, 1, 95) \o Range(161, 254)
    ELSE md

get_charset(md) ==
    IF md = AsciiName THEN SubSeq(printable, 1, 95)
    ELSE IF md = NumericName THEN digits
    ELSE IF md = AlphanumericName THEN digits \o ascii_letters
    ELSE IF md = ExtendedName THEN SubSeq(printable, 1, 95) \o Range(161, 255)
    ELSE md

(* ---- inputs ---- *)
Alphabet == {65, 66}
CustomStrings == UNION {[1..n -> Alphabet] : n \in 0..MaxLen}
Paddings == 0..MaxPadding

\* bounding boxes <<left, top, right, bottom>> a font may report
BBoxes == { <<0, 0, 10, 20>>, <<-2, -1, 10, 20>>, <<-3, -4, -1, -2>>,
            <<1, 2, 8, 15>>, <<0, 0, 0, 0>>, <<-2, 3, 12, 25>> }
\* a font: one glyph shape for even code points, one for odd ones
Fonts == [0..1 -> BBoxes]
PresetFonts == {f \in Fonts : f[0] = <<-2, -1, 10, 20>>}
textbbox(f, c) == f[c % 2]

Min2(a, b) == IF a < b THEN a ELSE b
Max2(a, b) == IF a > b THEN a ELSE b

(* ---- layout arithmetic ---- *)
CellSizeOnePad(hi, lo, pad) == (hi - lo) + pad
CellSize(hi, lo, pad) == (hi - lo) + (pad * 2)

ISqrt(n) == CHOOSE r \in 0..n : r * r <= n /\ (r + 1) * (r + 1) > n
FloorSqrt(n) == ISqrt(n)
CeilSqrtAtLeast1(n) ==
    IF n = 0 THEN 1 ELSE IF ISqrt(n) * ISqrt(n) = n THEN ISqrt(n) ELSE ISqrt(n) + 1
\* math.ceil(math.sqrt(n))
CeilSqrt(n) == IF ISqrt(n) * ISqrt(n) = n THEN ISqrt(n) ELSE ISqrt(n) + 1
\* math.ceil(n / c), c > 0
CeilDiv(n, c) == IF n % c = 0 THEN n \div c ELSE (n \div c) + 1

RowOfTransposed(idx, c) == idx % c
RowOf(idx, c) == idx \div c
ColOf(idx, c) == idx % c
DrawPosUnshifted(cell, size, pad, lo) == (cell * size) + pad
DrawPos(cell, size, pad, lo) == (cell * size) + pad - lo

(* ---- the run ---- *)
Locals0 ==
    /\ pc = "load" /\ chars = <<>>
    /\ min_left = 0 /\ min_top = 0 /\ max_right = 0 /\ max_bottom = 0
    /\ m = 0 /\ cell_width = 0 /\ cell_height = 0 /\ cols = 0 /\ rows = 0
    /\ image_width = 0 /\ image_height = 0 /\ img = FALSE /\ i = 0
    /\ drawn = <<>> /\ saves = 0 /\ exit_code = -1
    /\ failed_at = "none" /\ raised = "none"

\* every font is tried on the custom strings, PresetFonts on the presets
Init ==
    /\ \/ mode \in CustomStrings /\ font \in Fonts
       \/ mode \in PresetNames /\ font \in PresetFonts
    /\ padding \in Paddings
    /\ Locals0

Inputs == <<mode, font, padding>>
Extremes == <<min_left, min_top, max_right, max_bottom>>
Layout == <<cell_width, cell_height, cols, rows, image_width, image_height>>

\* the process ends with exit code 1: sys.exit(1) or an uncaught exception
Die(stage, exc) ==
    /\ pc' = "exit" /\ exit_code' = 1 /\ failed_at' = stage /\ raised' = exc

LoadFontKeepGoing ==
    /\ pc = "load"
    /\ \/ /\ pc' = "measure" /\ chars' = get_charset(mode)
          /\ UNCHANGED <<exit_code, failed_at, raised>>
       \/ /\ Die("load", "IOError") /\ UNCHANGED chars
       \/ /\ pc' = "measure" /\ chars' = get_charset(mode)
          /\ failed_at' = "load" /\ raised' = "Exception"
          /\ UNCHANGED exit_code
    /\ UNCHANGED <<Inputs, Extremes, Layout, m, img, i, drawn, saves>>

LoadFont ==
    /\ pc = "load"
    /\ \/ /\ pc' = "measure" /\ chars' = get_charset(mode)
          /\ UNCHANGED <<exit_code, failed_at, raised>>
       \/ /\ \E exc \in {"IOError", "Exception"} : Die("load", exc)
          /\ UNCHANGED chars
    /\ UNCHANGED <<Inputs, Extremes, Layout, m, img, i, drawn, saves>>

Measure ==
    /\ pc = "measure" /\ m < Len(chars)
    /\ \/ /\ LET bbox == textbbox(font, chars[m + 1])
             IN /\ min_left' = Min2(min_left, bbox[1])
                /\ min_top' = Min2(min_top, bbox[2])
                /\ max_right' = Max2(max_right, bbox[3])
                /\ max_bottom' = Max2(max_bottom, bbox[4])
          /\ m' = m + 1
          /\ UNCHANGED <<pc, exit_code, failed_at, raised>>
       \/ /\ Die("measure", "Exception")
          /\ UNCHANGED <<Extremes, m>>
    /\ UNCHANGED <<Inputs, chars, Layout, img, i, drawn, saves>>

ComputeLayout ==
    /\ pc = "measure" /\ m = Len(chars)
    /\ cell_width' = CellSize(max_right, min_left, padding)
    /\ cell_height' = CellSize(max_bottom, min_top, padding)
    /\ cols' = CeilSqrt(Len(chars))
    /\ IF cols' = 0
       THEN /\ Die("grid", "ZeroDivisionError")
            /\ UNCHANGED <<rows, image_width, image_height>>
       ELSE /\ rows' = CeilDiv(Len(chars), cols')
            /\ image_width' = cols' * cell_width'
            /\ image_height' = rows' * cell_height'
            /\ pc' = "new"
            /\ UNCHANGED <<exit_code, failed_at, raised>>
    /\ UNCHANGED <<Inputs, chars, Extremes, m, img, i, drawn, saves>>

NewImage ==
    /\ pc = "new"
    /\ \/ /\ img' = TRUE /\ pc' = "draw"
          /\ UNCHANGED <<exit_code, failed_at, raised>>
       \/ /\ Die("new", "Exception") /\ UNCHANGED img
    /\ UNCHANGED <<Inputs, chars, Extremes, Layout, m, i, drawn, saves>>

DrawChar ==
    /\ pc = "draw" /\ i < Len(chars)
    /\ \/ /\ LET row == RowOf(i, cols)
                 col == ColOf(i, cols)
                 x == DrawPos(col, cell_width, padding, min_left)
                 y == DrawPos(row, cell_height, padding, min_top)
             IN drawn' = Append(drawn, [char |-> chars[i + 1], row |-> row,
                                        col |-> col, x |-> x, y |-> y])
          /\ i' = i + 1
          /\ UNCHANGED <<pc, exit_code, failed_at, raised>>
       \/ /\ Die("draw", "Exception")
          /\ UNCHANGED <<i, drawn>>
    /\ UNCHANGED <<Inputs, chars, Extremes, Layout, m, img, saves>>

SaveInLoop ==
    /\ pc = "draw" /\ saves < 2
    /\ saves' = saves + 1
    /\ IF i = Len(chars)
       THEN pc' = "exit" /\ exit_code' = 0
       ELSE UNCHANGED <<pc, exit_code>>
    /\ UNCHANGED <<Inputs, chars, Extremes, Layout, m, img, i, drawn,
                   failed_at, raised>>

Save ==
    /\ pc = "draw" /\ i = Len(chars)
    /\ \/ /\ saves' = saves + 1
          /\ pc' = "exit" /\ exit_code' = 0
          /\ UNCHANGED <<failed_at, raised>>
       \* a failing img.save may or may not have created the file already
       \/ /\ Die("save", "Exception")
          /\ \E created \in 0..1 : saves' = saves + created
    /\ UNCHANGED <<Inputs, chars, Extremes, Layout, m, img, i, drawn>>

Next == LoadFont \/ Measure \/ ComputeLayout \/ NewImage \/ DrawChar \/ Save

Spec == Init /\ [][Next]_vars

(* ---- grid sizing alone: runs that have measured n copies of 'A' ---- *)
ExampleBox == <<0, 0, 10, 20>>

InitGrid ==
    \E n \in 0..MaxCount :
        /\ mode = [k \in 1..n |-> 65]
        /\ chars = mode
        /\ font = [p \in 0..1 |-> ExampleBox]
        /\ padding = 2
        /\ pc = "measure" /\ m = n
        /\ min_left = 0 /\ min_top = 0
        /\ max_right = (IF n = 0 THEN 0 ELSE 10)
        /\ max_bottom = (IF n = 0 THEN 0 ELSE 20)
        /\ cell_width = 0 /\ cell_height = 0 /\ cols = 0 /\ rows = 0
        /\ image_width = 0 /\ image_height = 0 /\ img = FALSE /\ i = 0
        /\ drawn = <<>> /\ saves = 0 /\ exit_code = -1
        /\ failed_at = "none" /\ raised = "none"

NextGrid == ComputeLayout

SpecGrid == InitGrid /\ [][NextGrid]_vars

(* ---- properties ---- *)
Loaded == pc # "load" /\ failed_at # "load"
LaidOut == pc \in {"new", "draw"}
              \/ (pc = "exit" /\ failed_at \in {"none", "new", "draw", "save"})
Succeeded == pc = "exit" /\ exit_code = 0
BoxAt(j) == textbbox(font, chars[j])
CellCol(j) == (j - 1) % cols
CellRow(j) == (j - 1) \div cols

\* C1: every drawn glyph's ink rectangle [x+left, x+right] x [y+top, y+bottom]
\* lies inside its cell, at least `padding` pixels away from each cell edge,
\* whatever the signs of the bounding box.
C1_InkInsideCell ==
    \A j \in 1..Len(drawn) :
        LET d == drawn[j]
            b == BoxAt(j)
        IN /\ padding >= 0
           /\ d.x + b[1] >= CellCol(j) * cell_width + padding
           /\ d.x + b[3] <= (CellCol(j) + 1) * cell_width - padding
           /\ d.y + b[2] >= CellRow(j) * cell_height + padding
           /\ d.y + b[4] <= (CellRow(j) + 1) * cell_height - padding

C1_Witness ==
    /\ Succeeded /\ padding > 0 /\ Len(drawn) >= 2
    /\ \E j \in 1..Len(drawn) : BoxAt(j)[1] < 0 /\ BoxAt(j)[2] < 0
    /\ \E j \in 1..Len(drawn) : BoxAt(j)[1] > 0

\* C2: the ascii preset resolves to code points 32..126 in ascending order
\* (element k, counted from 0, is code point 32+k).
C2_AsciiAscending ==
    (Loaded /\ mode = AsciiName) => chars = Range(32, 126)

\* C3: the image file is written at most once and only after the load, every
\* measurement and every draw have succeeded; a run that fails before the save
\* leaves no file, and a successful run has written exactly one.
C3_NoPartialOutput ==
    /\ saves <= 1
    /\ saves = 1 => /\ pc = "exit" /\ failed_at \in {"none", "save"}
                    /\ img /\ m = Len(chars) /\ i = Len(chars)
                    /\ Len(drawn) = Len(chars)
    /\ (pc = "exit" /\ failed_at \in {"load", "measure", "grid", "new", "draw"})
          => (saves = 0 /\ exit_code # 0)
    /\ Succeeded => saves = 1

C3_Witness == Succeeded /\ saves = 1 /\ Len(chars) = 95

\* C4: a font-load failure, IOError or any other exception, ends the process
\* with exit code 1 at once: nothing is measured or drawn and no file written.
C4_LoadFailureExits1 ==
    failed_at = "load" =>
        /\ pc = "exit" /\ exit_code = 1
        /\ raised \in {"IOError", "Exception"}
        /\ chars = <<>> /\ m = 0 /\ i = 0 /\ drawn = <<>>
        /\ ~img /\ saves = 0

C4_Witness == failed_at = "load" /\ raised = "Exception" /\ exit_code = 1

\* C5: for n characters, 1 <= n <= MaxCount, columns is the least c with
\* c*c >= n, rows is the least r with r*columns >= n, and columns >= rows.
C5_GridDimensions ==
    (pc = "new" /\ Len(chars) >= 1) =>
        LET n == Len(chars)
        IN /\ cols * cols >= n /\ (cols - 1) * (cols - 1) < n
           /\ rows * cols >= n /\ (rows - 1) * cols < n
           /\ cols >= rows

C5_Witness == pc = "new" /\ Len(chars) = 240 /\ cols = 16 /\ rows = 15

\* C6: character i (0-based) is drawn in row i div columns, column
\* i mod columns, at x = col*cellWidth + padding - minLeft and
\* y = row*cellHeight + padding - minTop; rows and columns stay inside the
\* grid and no two indices share a cell.  Charset "AB", both boxes
\* (0,0,10,20), padding 2: cells 14x24, 2 columns, 1 row, image 28x24,
\* 'A' at (2,2), 'B' at (16,2).
IsExampleAB ==
    /\ mode = <<65, 66>> /\ padding = 2
    /\ font[0] = ExampleBox /\ font[1] = ExampleBox

C6_RowMajorPlacement ==
    /\ \A j \in 1..Len(drawn) :
           LET d == drawn[j]
           IN /\ d.char = chars[j]
              /\ d.col = CellCol(j) /\ d.row = CellRow(j)
              /\ d.col < cols /\ d.row < rows
              /\ d.x = d.col * cell_width + padding - min_left
              /\ d.y = d.row * cell_height + padding - min_top
    /\ Cardinality({<<drawn[j].row, drawn[j].col>> : j \in 1..Len(drawn)})
           = Len(drawn)
    /\ (IsExampleAB /\ Succeeded) =>
           /\ cell_width = 14 /\ cell_height = 24 /\ cols = 2 /\ rows = 1
           /\ image_width = 28 /\ image_height = 24
           /\ <<drawn[1].char, drawn[1].x, drawn[1].y>> = <<65, 2, 2>>
           /\ <<drawn[2].char, drawn[2].x, drawn[2].y>> = <<66, 16, 2>>

C6_Witness == IsExampleAB /\ Succeeded /\ Len(drawn) = 2

\* C7: a selector that is no preset name resolves to itself: same length,
\* same character at every index, duplicates kept, and each occurrence is
\* drawn in a cell of its own.
C7_CustomVerbatim ==
    (Loaded /\ mode \notin PresetNames) =>
        /\ Len(chars) = Len(mode)
        /\ \A j \in 1..Len(mode) : chars[j] = mode[j]
        /\ Succeeded =>
              /\ Len(drawn) = Len(mode)
              /\ \A j \in 1..Len(mode) : drawn[j].char = mode[j]
              /\ Cardinality({<<drawn[j].row, drawn[j].col>> : j \in 1..Len(drawn)})
                    = Len(mode)

C7_Witness == Succeeded /\ mode = <<65, 66, 65>> /\ Len(drawn) = 3

\* C8: ascii has 95 characters, numeric 10, alphanumeric 62, extended 190,
\* and extended is the ascii sequence followed by code points 161..255 in
\* ascending order.
C8_PresetLengths ==
    Loaded =>
        /\ mode = AsciiName => Len(chars) = 95
        /\ mode = NumericName => Len(chars) = 10
        /\ mode = AlphanumericName => Len(chars) = 62
        /\ mode = ExtendedName =>
              /\ Len(chars) = 190
              /\ SubSeq(chars, 1, 95) = SubSeq(printable, 1, 95)
              /\ \A k \in 1..95 : chars[95 + k] = 160 + k

C8_Witness == Succeeded /\ mode = ExtendedName /\ Len(drawn) = 190

\* C9: cellWidth = (maxRight - minLeft) + 2*padding and cellHeight =
\* (maxBottom - minTop) + 2*padding, the extremes taken over all glyphs with
\* zero as floor; with the same glyphs, padding + D gives cells exactly 2*D
\* larger in both directions.
Coord(n) == {0} \cup {BoxAt(j)[n] : j \in 1..Len(chars)}
Least(S) == CHOOSE v \in S : \A w \in S : v <= w
Greatest(S) == CHOOSE v \in S : \A w \in S : v >= w

C9_PaddingAddsTwice ==
    LaidOut =>
        /\ cell_width = (Greatest(Coord(3)) - Least(Coord(1))) + 2 * padding
        /\ cell_height = (Greatest(Coord(4)) - Least(Coord(2))) + 2 * padding
        /\ \A D \in 0..MaxDelta :
              /\ CellSize(max_right, min_left, padding + D) = cell_width + 2 * D
              /\ CellSize(max_bottom, min_top, padding + D) = cell_height + 2 * D
              /\ CellSize(max_right, min_left, padding + D) >= cell_width

C9_Witness ==
    /\ LaidOut /\ padding > 0 /\ Len(chars) > 0
    /\ \A j \in 1..Len(chars) : BoxAt(j)[3] < 0 /\ BoxAt(j)[4] < 0
    /\ cell_width = 3 + 2 * padding

\* C10: with an empty charset and a loaded font, columns is 0 and the rows
\* division fails: the run ends at grid sizing with no image allocated, no
\* character drawn and no file written.
C10_EmptyCharsetFailsAtGrid ==
    (Loaded /\ mode = <<>>) =>
        /\ chars = <<>> /\ ~img /\ drawn = <<>> /\ saves = 0
        /\ image_width = 0 /\ image_height = 0
        /\ pc \in {"measure", "exit"}
        /\ pc = "exit" => /\ failed_at = "grid" /\ raised = "ZeroDivisionError"
                          /\ cols = 0 /\ exit_code = 1

C10_Witness == mode = <<>> /\ pc = "exit" /\ failed_at = "grid"

====
